---- MODULE Spec2Model ----
(***************************************************************************)
(* Model of deepfake_check: the dispatcher DeepfakeAnalyzer, the audio and *)
(* video analyzers, their extractor groups, the confidence aggregator and  *)
(* the video frame sampler.                                                *)
(*                                                                         *)
(* Units.  Weights and confidence scores are kept in hundredths (0.25 is   *)
(* 25, the cap 1.0 is 100, the decision threshold 0.5 is 50); every sum of *)
(* table weights is exact in these units.  Edge densities are kept in      *)
(* thousandths.  Strings that the code inspects character by character     *)
(* (file suffixes) are tuples of one-character strings.  Where the code's  *)
(* rounding decides an outcome (np.linspace, the temporal jump test, the   *)
(* accumulated total_weight) the doubles themselves are computed.          *)
(***************************************************************************)
EXTENDS Integers, Sequences, FiniteSets, TLC

VARIABLES
    libs,             \* AUDIO_LIBS_AVAILABLE / VIDEO_LIBS_AVAILABLE
    audio_analyzer,   \* DeepfakeAnalyzer.audio_analyzer
    video_analyzer,   \* DeepfakeAnalyzer.video_analyzer
    pc,               \* position of the analysis call in progress
    method,           \* the DeepfakeAnalyzer method called
    file,             \* the file_path argument: [exists, suffix]
    handler,          \* modality analyzer whose analyze() is running
    loads,            \* loader calls made by the call in progress
    cap,              \* cv2.VideoCapture handle: "none", "open", "released"
    frames,           \* frame_count, and the frames _sample_frames appended
    measured,         \* what the extractor group that ran last measured
    anomalies,        \* the merged anomalies dict of the call
    analysis_details, \* group name -> that group's anomalies dict
    confidence_score, \* local confidence_score of analyze()
    result,           \* the AnalysisResult returned, or None
    error,            \* the exception raised to the caller, or "none"
    stages,           \* stages executed by the call, in order
    calls,            \* calls started on this DeepfakeAnalyzer
    fn                \* pure-function harness: operation, input, output

vars == <<libs, audio_analyzer, video_analyzer, pc, method, file, handler, loads, cap,
          frames, measured, anomalies, analysis_details,
          confidence_score, result, error, stages, calls, fn>>

None == "None"

(***************************************************************************)
(* Bounds of the model.                                                    *)
(***************************************************************************)
MaxCalls == 2
MaxFrameCount == 6
MaxSampleArg == 23
MaxFrameArg == 31

(***************************************************************************)
(* Small helpers.                                                          *)
(***************************************************************************)
Min(a, b) == IF a <= b THEN a ELSE b

Range(s) == {s[i] : i \in DOMAIN s}

EmptyDict == [k \in {} |-> TRUE]

\* dict.update(other): keys of other are added, a key already present is
\* overwritten with other's entry.
Update(d, other) ==
    [k \in DOMAIN d \cup DOMAIN other |->
        IF k \in DOMAIN other THEN other[k] ELSE d[k]]

(***************************************************************************)
(* File suffixes and the supported formats.                                *)
(***************************************************************************)
LowerChar(c) ==
    CASE c = "A" -> "a" [] c = "C" -> "c" [] c = "F" -> "f" [] c = "G" -> "g"
      [] c = "I" -> "i" [] c = "K" -> "k" [] c = "L" -> "l" [] c = "M" -> "m"
      [] c = "O" -> "o" [] c = "P" -> "p" [] c = "V" -> "v" [] c = "W" -> "w"
      [] c = "X" -> "x" [] c = "Y" -> "y" [] c = "Z" -> "z" [] c = "B" -> "b"
      [] c = "E" -> "e"
      [] OTHER -> c

\* str.lower()
Lower(s) == [i \in DOMAIN s |-> LowerChar(s[i])]

AudioFormats ==
    { <<".", "m", "p", "3">>, <<".", "w", "a", "v">>, <<".", "m", "4", "a">>,
      <<".", "f", "l", "a", "c">>, <<".", "o", "g", "g">>,
      <<".", "a", "a", "c">>, <<".", "w", "m", "a">> }

VideoFormats ==
    { <<".", "m", "p", "4">>, <<".", "a", "v", "i">>, <<".", "m", "o", "v">>,
      <<".", "m", "k", "v">>, <<".", "f", "l", "v">>, <<".", "w", "m", "v">>,
      <<".", "w", "e", "b", "m">> }

\* AudioAnalyzer.supports_file / VideoAnalyzer.supports_file
AudioSupports(suffix) == Lower(suffix) \in AudioFormats
VideoSupports(suffix) == Lower(suffix) \in VideoFormats

(***************************************************************************)
(* Confidence aggregator.                                                  *)
(***************************************************************************)
AudioWeights ==
    [ spectral_centroid_anomaly |-> 25,
      spectral_rolloff_anomaly  |-> 15,
      zero_crossing_anomaly     |-> 20,
      energy_anomaly            |-> 20,
      onset_pattern_anomaly     |-> 10,
      kurtosis_anomaly          |-> 5,
      skewness_anomaly          |-> 5 ]

VideoWeights ==
    [ sharpness_anomaly            |-> 15,
      low_sharpness_anomaly        |-> 10,
      temporal_consistency_anomaly |-> 25,
      temporal_jump_anomaly        |-> 15,
      color_distribution_anomaly   |-> 15,
      color_balance_anomaly        |-> 10,
      edge_consistency_anomaly     |-> 5,
      low_edge_density_anomaly     |-> 5 ]

DefaultWeight == 10
ConfidenceCap == 100

\* weights.get(anomaly_key, 0.1)
WeightGet(weights, key) ==
    IF key \in DOMAIN weights THEN weights[key] ELSE DefaultWeight

\* the loop "for anomaly_key in anomalies.keys(): total_weight += ..."
RECURSIVE TotalWeight(_, _)
TotalWeight(weights, keys) ==
    IF keys = {} THEN 0
    ELSE LET k == CHOOSE x \in keys : TRUE
         IN  WeightGet(weights, k) + TotalWeight(weights, keys \ {k})

\* faulty variant: the sum is returned without the cap
CalculateConfidenceNoCap(weights, keys) == TotalWeight(weights, keys)

CalculateConfidence(weights, keys) ==
    IF keys = {} THEN 0
    ELSE Min(TotalWeight(weights, keys), ConfidenceCap)

AudioCalculateConfidence(keys) == CalculateConfidence(AudioWeights, keys)
VideoCalculateConfidence(keys) == CalculateConfidence(VideoWeights, keys)

(***************************************************************************)
(* IEEE-754 double arithmetic, as far as np.linspace, the temporal jump    *)
(* test and the sum of weights need it.  A positive double below 2^17 is   *)
(* [m1, m2, m3, fb]: its 53-digit binary mantissa is the integer           *)
(* m1 * 2^36 + m2 * 2^18 + m3 (m1 of 17 digits, m2 and m3 of 18), and the  *)
(* double is that integer divided by 2^fb.                                 *)
(***************************************************************************)
LimbBits == 18
TopLimbBits == 17

RECURSIVE Pow2(_)
Pow2(n) == IF n = 0 THEN 1 ELSE 2 * Pow2(n - 1)

Limb == Pow2(LimbBits)

\* number of binary digits of a natural number (0 for 0)
RECURSIVE BitLen(_)
BitLen(n) == IF n = 0 THEN 0 ELSE 1 + BitLen(n \div 2)

\* mantissa + 1, renormalised when the carry adds a digit
IncMantissa(x) ==
    LET m3 == (x.m3 + 1) % Limb
        c3 == (x.m3 + 1) \div Limb
        m2 == (x.m2 + c3) % Limb
        c2 == (x.m2 + c3) \div Limb
        m1 == x.m1 + c2
    IN  IF m1 = Pow2(TopLimbBits)
        THEN [m1 |-> m1 \div 2, m2 |-> 0, m3 |-> 0, fb |-> x.fb - 1]
        ELSE [m1 |-> m1, m2 |-> m2, m3 |-> m3, fb |-> x.fb]

\* round half to even: up says whether the dropped part exceeds one half,
\* tie whether it is exactly one half
RoundMantissa(x, up, tie) ==
    IF up \/ (tie /\ x.m3 % 2 = 1) THEN IncMantissa(x) ELSE x

\* the double nearest to a / b, for integers a >= b >= 1
FloatDiv(a, b) ==
    LET len == BitLen(a \div b)
        n1  == a * Pow2(TopLimbBits - len)
        n2  == (n1 % b) * Limb
        n3  == (n2 % b) * Limb
        rem == n3 % b
    IN  RoundMantissa([m1 |-> n1 \div b, m2 |-> n2 \div b, m3 |-> n3 \div b,
                       fb |-> 2 * LimbBits + TopLimbBits - len],
                      2 * rem > b, 2 * rem = b)

\* the double nearest to i * x, for an integer i >= 1 and a double x
FloatMulInt(i, x) ==
    LET p3   == x.m3 * i
        p2   == x.m2 * i + p3 \div Limb
        p1   == x.m1 * i + p2 \div Limb
        l3   == p3 % Limb
        l2   == p2 % Limb
        d    == BitLen(p1) - TopLimbBits
        sh   == Pow2(d)
        up   == Pow2(LimbBits - d)
        drop == l3 % sh
    IN  IF d = 0 THEN [m1 |-> p1, m2 |-> l2, m3 |-> l3, fb |-> x.fb]
        ELSE RoundMantissa([m1 |-> p1 \div sh,
                            m2 |-> l2 \div sh + (p1 % sh) * up,
                            m3 |-> l3 \div sh + (l2 % sh) * up,
                            fb |-> x.fb - d],
                           2 * drop > sh, 2 * drop = sh)

\* np.floor of a double, as an integer
FloatFloor(x) == x.m1 \div Pow2(x.fb - 2 * LimbBits)

\* the double nearest to x / n, for a double x and an integer 1 <= n < 1024:
\* long division of the mantissa, shifted left by s digits, limb by limb
FloatDivInt(x, n) ==
    LET s    == BitLen(n)
        a1   == x.m1 * Pow2(s)
        a2   == (a1 % n) * Limb + x.m2 * Pow2(s)
        a3   == (a2 % n) * Limb + x.m3 * Pow2(s)
        rem  == a3 % n
        q3   == a3 \div n
        q2   == a2 \div n + q3 \div Limb
        p1   == a1 \div n + q2 \div Limb
        l3   == q3 % Limb
        l2   == q2 % Limb
        d    == BitLen(p1) - TopLimbBits
        sh   == Pow2(d)
        up   == Pow2(LimbBits - d)
        drop == l3 % sh
    IN  IF d = 0
        THEN RoundMantissa([m1 |-> p1, m2 |-> l2, m3 |-> l3,
                            fb |-> x.fb + s],
                           2 * rem > n, 2 * rem = n)
        ELSE RoundMantissa([m1 |-> p1 \div sh,
                            m2 |-> l2 \div sh + (p1 % sh) * up,
                            m3 |-> l3 \div sh + (l2 % sh) * up,
                            fb |-> x.fb + s - d],
                           2 * drop > sh \/ (2 * drop = sh /\ rem > 0),
                           2 * drop = sh /\ rem = 0)

\* the double nearest to a / b, for integers 1 <= a < b: the quotient of
\* a * 2^k by b, with k more fractional digits
FloatFrac(a, b) ==
    LET k == BitLen(b)
    IN  [FloatDiv(a * Pow2(k), b) EXCEPT !.fb = @ + k]

\* the double nearest to x + y, for two doubles x >= y whose exponents differ
\* by d < LimbBits: y's mantissa is shifted right by d digits and added
FloatAddOrdered(x, y) ==
    LET d    == y.fb - x.fb
        sh   == Pow2(d)
        up   == Pow2(LimbBits - d)
        r    == y.m3 % sh
        s3   == x.m3 + y.m3 \div sh + (y.m2 % sh) * up
        s2   == x.m2 + y.m2 \div sh + (y.m1 % sh) * up + s3 \div Limb
        s1   == x.m1 + y.m1 \div sh + s2 \div Limb
        l3   == s3 % Limb
        l2   == s2 % Limb
        half == Pow2(LimbBits - 1)
        drop == (l3 % 2) * sh + r
    IN  IF s1 < Pow2(TopLimbBits)
        THEN RoundMantissa([m1 |-> s1, m2 |-> l2, m3 |-> l3, fb |-> x.fb],
                           2 * r > sh, 2 * r = sh)
        ELSE RoundMantissa([m1 |-> s1 \div 2,
                            m2 |-> l2 \div 2 + (s1 % 2) * half,
                            m3 |-> l3 \div 2 + (l2 % 2) * half,
                            fb |-> x.fb - 1],
                           drop > sh, drop = sh)

\* x + y on doubles
FloatAdd(x, y) ==
    IF x.fb <= y.fb THEN FloatAddOrdered(x, y) ELSE FloatAddOrdered(y, x)

\* 0.0
FloatZero == [m1 |-> 0, m2 |-> 0, m3 |-> 0, fb |-> 0]

\* x < y for two doubles, each positive or 0.0
FloatLt(x, y) ==
    IF x = FloatZero THEN y # FloatZero
    ELSE IF y = FloatZero THEN FALSE
    ELSE \/ x.fb > y.fb
         \/ /\ x.fb = y.fb
            /\ \/ x.m1 < y.m1
               \/ x.m1 = y.m1 /\ x.m2 < y.m2
               \/ x.m1 = y.m1 /\ x.m2 = y.m2 /\ x.m3 < y.m3

\* 1.0
FloatOne == FloatDiv(1, 1)

\* the weight literal of a name, a double
WeightDouble(weights, key) == FloatFrac(WeightGet(weights, key), 100)

\* total_weight as the loop accumulates it in doubles, starting from 0.0,
\* over the keys in the dict's insertion order
RECURSIVE TotalWeightDouble(_, _)
TotalWeightDouble(weights, keys) ==
    IF keys = <<>> THEN FloatZero
    ELSE LET before == TotalWeightDouble(weights, SubSeq(keys, 1, Len(keys) - 1))
             w      == WeightDouble(weights, keys[Len(keys)])
         IN  IF before = FloatZero THEN w ELSE FloatAdd(before, w)

\* min(total_weight, 1.0) on doubles; 0.0 for no anomaly
CalculateConfidenceDouble(weights, keys) ==
    LET total == TotalWeightDouble(weights, keys)
    IN  IF keys = <<>> THEN FloatZero
        ELSE IF FloatLt(FloatOne, total) THEN FloatOne ELSE total

(***************************************************************************)
(* Video frame sampling.                                                   *)
(***************************************************************************)
DefaultSampleFrames == 30

\* faulty variant: the step is stop / num and the end point is left out
LinspaceNoEndpoint(stop, num) ==
    [i \in 1..num |-> ((i - 1) * stop) \div num]

\* np.linspace(0, stop, num, dtype=int) for stop >= 0: y = arange(num) * step
\* with step = stop / (num - 1) in doubles, the last element set to stop,
\* then floor.  (num = 1 gives [0]; num = 0 gives the empty array.)
Linspace(stop, num) ==
    IF num = 1 THEN <<0>>
    ELSE [i \in 1..num |->
            IF i = num THEN stop
            ELSE IF i = 1 \/ stop = 0 THEN 0
            ELSE FloatFloor(FloatMulInt(i - 1, FloatDiv(stop, num - 1)))]

\* the indices _sample_frames visits, for frame_count >= 0 and
\* sample_frames >= 0
SampleIndices(frameCount, sampleFrames) ==
    IF frameCount <= sampleFrames
    THEN [i \in 1..frameCount |-> i - 1]
    ELSE Linspace(frameCount - 1, sampleFrames)

(***************************************************************************)
(* Measured statistics.  A statistic is [nan, v]: np.mean and np.std of an *)
(* empty list are nan, and every comparison with nan is false.             *)
(***************************************************************************)
NaN == [nan |-> TRUE, v |-> 0]
Num(x) == [nan |-> FALSE, v |-> x]
Lt(s, c) == ~s.nan /\ s.v < c
Gt(s, c) == ~s.nan /\ s.v > c

\* sums and maxima of s[lo..hi], by halves
RECURSIVE SumRange(_, _, _)
SumRange(s, lo, hi) ==
    IF lo > hi THEN 0
    ELSE IF lo = hi THEN s[lo]
    ELSE LET mid == (lo + hi) \div 2
         IN  SumRange(s, lo, mid) + SumRange(s, mid + 1, hi)

RECURSIVE SumSqRange(_, _, _)
SumSqRange(s, lo, hi) ==
    IF lo > hi THEN 0
    ELSE IF lo = hi THEN s[lo] * s[lo]
    ELSE LET mid == (lo + hi) \div 2
         IN  SumSqRange(s, lo, mid) + SumSqRange(s, mid + 1, hi)

RECURSIVE MaxRange(_, _, _)
MaxRange(s, lo, hi) ==
    IF lo = hi THEN s[lo]
    ELSE LET mid == (lo + hi) \div 2
             a   == MaxRange(s, lo, mid)
             b   == MaxRange(s, mid + 1, hi)
         IN  IF a >= b THEN a ELSE b

SeqSum(s) == SumRange(s, 1, Len(s))
SeqSumSq(s) == SumSqRange(s, 1, Len(s))
SeqMax(s) == MaxRange(s, 1, Len(s))

\* np.std(s) < c for a non-empty list s and c >= 0, without the square root:
\* the variance is (n * sumsq - sum^2) / n^2
StdLt(s, c) ==
    Len(s) * SeqSumSq(s) - SeqSum(s) * SeqSum(s) < c * c * Len(s) * Len(s)

\* np.diff
Diff(s) == [i \in 1..(Len(s) - 1) |-> s[i + 1] - s[i]]

(***************************************************************************)
(* Video extractor groups.  Each takes what cv2 and numpy measured on the  *)
(* sampled frames and returns the group's anomalies dict.                  *)
(***************************************************************************)
\* faulty variant: the low-sharpness threshold lies above the threshold of
\* the consistent-sharpness test
AnalyzeFrameQualityOverlap(mean_sharpness, std_sharpness) ==
    LET a1 == IF Lt(std_sharpness, 10) /\ Gt(mean_sharpness, 50)
              THEN [k \in {"sharpness_anomaly"} |->
                      [detected |-> TRUE, mean |-> mean_sharpness.v,
                       std |-> std_sharpness.v,
                       reason |-> "Unnaturally consistent sharpness across frames"]]
              ELSE EmptyDict
        a2 == IF Lt(mean_sharpness, 90)
              THEN [k \in {"low_sharpness_anomaly"} |->
                      [detected |-> TRUE, mean |-> mean_sharpness.v,
                       reason |-> "Unusually low overall sharpness"]]
              ELSE EmptyDict
    IN  Update(a1, a2)

\* _analyze_frame_quality: mean and std of the per-frame Laplacian variance
AnalyzeFrameQuality(mean_sharpness, std_sharpness) ==
    LET a1 == IF Lt(std_sharpness, 10) /\ Gt(mean_sharpness, 50)
              THEN [k \in {"sharpness_anomaly"} |->
                      [detected |-> TRUE, mean |-> mean_sharpness.v,
                       std |-> std_sharpness.v,
                       reason |-> "Unnaturally consistent sharpness across frames"]]
              ELSE EmptyDict
        a2 == IF Lt(mean_sharpness, 30)
              THEN [k \in {"low_sharpness_anomaly"} |->
                      [detected |-> TRUE, mean |-> mean_sharpness.v,
                       reason |-> "Unusually low overall sharpness"]]
              ELSE EmptyDict
    IN  Update(a1, a2)

\* the pixels of one gray frame
FramePixels == 10

\* np.mean(diff) of one pair of frames, a double: absdiff is the summed
\* absolute difference over the frame's pixels, an integer >= FramePixels
PairMean(absdiff) == FloatDiv(absdiff, FramePixels)

\* mean_diff = np.mean(frame_diffs), a double, for a list that is not all
\* zero.  The lists analysed hold whole intensity levels, or one non-zero
\* difference among zeros, so np.mean's running sum is exact
MeanDiff(frame_diffs) ==
    FloatDivInt(PairMean(SeqSum(frame_diffs)), Len(frame_diffs))

\* max_diff > mean_diff * 5, on doubles
JumpTest(frame_diffs) ==
    /\ SeqSum(frame_diffs) > 0
    /\ FloatLt(FloatMulInt(5, MeanDiff(frame_diffs)),
               PairMean(SeqMax(frame_diffs)))

\* _analyze_temporal_consistency: frame_diffs holds, per consecutive pair of
\* the nframes sampled frames, the summed absolute difference over the
\* frame's pixels; a mean is kept as the pair <<sum, count>>.  No list
\* analysed is within rounding of the two thresholds of the first test, which
\* is taken exactly
AnalyzeTemporalConsistency(nframes, frame_diffs) ==
    IF nframes < 2 THEN EmptyDict
    ELSE
    LET n  == Len(frame_diffs)
        a1 == IF /\ StdLt(frame_diffs, FramePixels)
                 /\ SeqSum(frame_diffs) > 5 * FramePixels * n
              THEN [k \in {"temporal_consistency_anomaly"} |->
                      [detected |-> TRUE,
                       mean_diff |-> <<SeqSum(frame_diffs), n>>,
                       reason |-> "Suspiciously consistent temporal changes"]]
              ELSE EmptyDict
        a2 == IF JumpTest(frame_diffs)
              THEN [k \in {"temporal_jump_anomaly"} |->
                      [detected |-> TRUE, max_diff |-> SeqMax(frame_diffs),
                       mean_diff |-> <<SeqSum(frame_diffs), n>>,
                       reason |-> "Unusual temporal discontinuities detected"]]
              ELSE EmptyDict
    IN  Update(a1, a2)

\* _analyze_color_distribution: the averaged per-channel std and the std of
\* the three channel averages
AnalyzeColorDistribution(overall_std, channel_imbalance) ==
    LET a1 == IF Lt(overall_std, 20)
              THEN [k \in {"color_distribution_anomaly"} |->
                      [detected |-> TRUE, std |-> overall_std.v,
                       reason |-> "Unnaturally low color variation"]]
              ELSE EmptyDict
        a2 == IF Gt(channel_imbalance, 30)
              THEN [k \in {"color_balance_anomaly"} |->
                      [detected |-> TRUE, imbalance |-> channel_imbalance.v,
                       reason |-> "Unusual color channel imbalance"]]
              ELSE EmptyDict
    IN  Update(a1, a2)

\* _analyze_edges: mean and std of the per-frame edge density, in
\* thousandths (0.001 is 1, 0.02 is 20)
AnalyzeEdges(mean_density, std_density) ==
    LET a1 == IF Lt(std_density, 1)
              THEN [k \in {"edge_consistency_anomaly"} |->
                      [detected |-> TRUE, mean_density |-> mean_density.v,
                       std_density |-> std_density.v,
                       reason |-> "Suspiciously consistent edge patterns"]]
              ELSE EmptyDict
        a2 == IF Lt(mean_density, 20)
              THEN [k \in {"low_edge_density_anomaly"} |->
                      [detected |-> TRUE, mean_density |-> mean_density.v,
                       reason |-> "Unusually low edge density"]]
              ELSE EmptyDict
    IN  Update(a1, a2)

(***************************************************************************)
(* Audio extractor groups.                                                 *)
(***************************************************************************)
\* _analyze_spectral_features: centroid std in Hz, rolloff mean and sample
\* rate in Hz, zero-crossing-rate std in thousandths (0.01 is 10)
AnalyzeSpectralFeatures(centroid_std, rolloff_mean, sr, zcr_std) ==
    LET a1 == IF centroid_std < 500 \/ centroid_std > 5000
              THEN [k \in {"spectral_centroid_anomaly"} |->
                      [detected |-> TRUE, std |-> centroid_std,
                       reason |-> "Unusual spectral centroid distribution"]]
              ELSE EmptyDict
        a2 == IF 10 * rolloff_mean > 9 * sr
              THEN [k \in {"spectral_rolloff_anomaly"} |->
                      [detected |-> TRUE, mean |-> rolloff_mean,
                       reason |-> "Abnormally high spectral rolloff"]]
              ELSE EmptyDict
        a3 == IF zcr_std < 10
              THEN [k \in {"zero_crossing_anomaly"} |->
                      [detected |-> TRUE, std |-> zcr_std,
                       reason |-> "Unnaturally consistent zero crossing rate"]]
              ELSE EmptyDict
    IN  Update(Update(a1, a2), a3)

\* _analyze_temporal_features: rms mean and std in millionths (the 1e-6 of
\* the code is 1), onsets the frame positions onset_detect returned
AnalyzeTemporalFeatures(rms_mean, rms_std, onsets) ==
    LET a1 == IF 10 * rms_std < rms_mean + 1
              THEN [k \in {"energy_anomaly"} |->
                      [detected |-> TRUE, mean |-> rms_mean, std |-> rms_std,
                       reason |-> "Unnaturally consistent energy levels"]]
              ELSE EmptyDict
        onset_intervals == Diff(onsets)
        a2 == IF Len(onsets) > 1 /\ Len(onset_intervals) > 2
                 /\ StdLt(onset_intervals, 2)
              THEN [k \in {"onset_pattern_anomaly"} |->
                      [detected |-> TRUE, onset_count |-> Len(onsets),
                       reason |-> "Suspiciously regular onset patterns"]]
              ELSE EmptyDict
    IN  Update(a1, a2)

\* _analyze_statistical_features: kurtosis in tenths (1.0 is 10).  The
\* kurtosis entry goes into the local dict, then the lookup of
\* scipy.stats.skewness (scipy.stats has skew, no skewness) raises
\* AttributeError, so the local dict is never returned.
AnalyzeStatisticalFeatures(kurtosis) ==
    LET a1 == IF -10 < kurtosis /\ kurtosis < 10
              THEN [k \in {"kurtosis_anomaly"} |->
                      [detected |-> TRUE, value |-> kurtosis,
                       reason |-> "Abnormal distribution kurtosis"]]
              ELSE EmptyDict
    IN  [raised |-> "AttributeError", anomalies |-> a1]

(***************************************************************************)
(* Inputs of the model.                                                    *)
(***************************************************************************)
\* suffixes of the analysed paths (Path(file_path).suffix)
SuffixInputs ==
    AudioFormats \cup VideoFormats \cup
    { <<".", "M", "P", "3">>, <<".", "W", "a", "V">>, <<".", "M", "P", "4">>,
      <<".", "M", "o", "v">>, <<".", "x", "y", "z">>, <<".", "t", "x", "t">>,
      <<".", "m", "p">>, <<>> }

FileInputs == [exists : BOOLEAN, suffix : SuffixInputs]

\* what the video groups measure on one to MaxFrameCount frames
SharpnessMeans == {20, 30, 50, 80}
SharpnessStds == {0, 10}
FrameDiffs == {0, 60}
SpikeDiffs == {18}
ColorStds == {10, 20}
ColorImbalances == {30, 40}
EdgeMeans == {10, 20}
EdgeStds == {0, 1}

\* the statistics of a list of n values: nan for no value, no spread for one
MeanInputs(n, values) == IF n = 0 THEN {NaN} ELSE {Num(x) : x \in values}
StdInputs(n, values) ==
    IF n = 0 THEN {NaN}
    ELSE IF n = 1 THEN {Num(0)}
    ELSE {Num(x) : x \in values}

\* what the audio groups measure
CentroidStds == {200, 500, 5000, 6000}
SampleRates == {1000}
RolloffMeans == {900, 950}
ZcrStds == {5, 10}
RmsInputs == {<<0, 0>>, <<100000, 10000>>, <<100000, 20000>>}
OnsetInputs ==
    { <<>>, <<5>>, <<5, 15, 25>>, <<5, 15, 25, 35>>, <<5, 15, 25, 40>> }
Kurtoses == {-10, 0, 10, 30}
(***************************************************************************)
(* The analyzers.                                                          *)
(***************************************************************************)
NoAnalyzer == [kind |-> None]
NoResult == [kind |-> None]
NoFile == [exists |-> FALSE, suffix |-> <<>>]
NoFn == [op |-> None]
NoFrames == [frame_count |-> 0, list |-> <<>>]
NoMeasured == [group |-> None]

\* AudioAnalyzer.__init__; serial tells the instances of the class apart,
\* the first one constructed has serial 1
NewAudioAnalyzer == [kind |-> "AudioAnalyzer", serial |-> 1]

\* VideoAnalyzer.__init__ with the default sample_frames
NewVideoAnalyzer ==
    [kind |-> "VideoAnalyzer", serial |-> 1,
     sample_frames |-> DefaultSampleFrames]

\* faulty variant: a new instance replaces the one the field holds
Rebuilt(field, first) ==
    IF field = NoAnalyzer THEN first ELSE [field EXCEPT !.serial = @ + 1]

\* if self.x_analyzer is None: self.x_analyzer = XAnalyzer(...)
LazilyBuilt(field, first) == IF field = NoAnalyzer THEN first ELSE field

\* the dataclass constructor: every field is stored as it is passed
AnalysisResult(f, type, likely, score, anoms, details) ==
    [kind                   |-> "AnalysisResult",
     file_path              |-> f,
     file_type              |-> type,
     is_likely_ai_generated |-> likely,
     confidence_score       |-> score,
     anomalies_detected     |-> anoms,
     analysis_details       |-> details]

\* faulty variant: a score of exactly 0.5 counts as likely AI generated
MakeResultInclusive(f, type, score, anoms, details) ==
    [kind                   |-> "AnalysisResult",
     file_path              |-> f,
     file_type              |-> type,
     is_likely_ai_generated |-> score >= 50,
     confidence_score       |-> score,
     anomalies_detected     |-> anoms,
     analysis_details       |-> details]

\* is_likely_ai = confidence_score > 0.5; return AnalysisResult(...)
MakeResult(f, type, score, anoms, details) ==
    [kind                   |-> "AnalysisResult",
     file_path              |-> f,
     file_type              |-> type,
     is_likely_ai_generated |-> score > 50,
     confidence_score       |-> score,
     anomalies_detected     |-> anoms,
     analysis_details       |-> details]

\* the call in progress ends by raising exc
Raise(exc) ==
    /\ pc' = "failed"
    /\ error' = exc

\* the locals of a call before its modality analyzer has loaded anything
FreshCall ==
    /\ loads = 0
    /\ cap = "none"
    /\ frames = NoFrames
    /\ measured = NoMeasured
    /\ anomalies = EmptyDict
    /\ analysis_details = EmptyDict
    /\ confidence_score = 0
    /\ result = NoResult
    /\ error = "none"
    /\ stages = <<>>

Init ==
    /\ libs \in [audio : BOOLEAN, video : BOOLEAN]
    /\ audio_analyzer = NoAnalyzer
    /\ video_analyzer = NoAnalyzer
    /\ pc = "idle"
    /\ method = None
    /\ file = NoFile
    /\ handler = None
    /\ calls = 0
    /\ fn = NoFn
    /\ FreshCall

locals == <<loads, cap, frames, measured, anomalies, analysis_details,
            confidence_score, result, stages>>

\* _get_audio_analyzer: construct on first use; the constructor raises
\* ImportError when librosa or scipy could not be imported
GetAudioAnalyzer ==
    IF audio_analyzer = NoAnalyzer /\ ~libs.audio
    THEN /\ Raise("ImportError")
         /\ UNCHANGED <<audio_analyzer, handler>>
    ELSE /\ audio_analyzer' = LazilyBuilt(audio_analyzer, NewAudioAnalyzer)
         /\ handler' = "audio"
         /\ pc' = "entered"
         /\ UNCHANGED error

\* _get_video_analyzer
GetVideoAnalyzer ==
    IF video_analyzer = NoAnalyzer /\ ~libs.video
    THEN /\ Raise("ImportError")
         /\ UNCHANGED <<video_analyzer, handler>>
    ELSE /\ video_analyzer' = LazilyBuilt(video_analyzer, NewVideoAnalyzer)
         /\ handler' = "video"
         /\ pc' = "entered"
         /\ UNCHANGED error

\* faulty variant: the suffix is looked up before the path is tested
DispatchBeforeExists(f) ==
    IF Lower(f.suffix) \in AudioFormats THEN "audio"
    ELSE IF Lower(f.suffix) \in VideoFormats THEN "video"
    ELSE IF ~f.exists THEN "FileNotFoundError"
    ELSE "ValueError"

\* faulty variant: the suffix is not lower-cased
DispatchKeepCase(f) ==
    IF ~f.exists THEN "FileNotFoundError"
    ELSE IF f.suffix \in AudioFormats THEN "audio"
    ELSE IF f.suffix \in VideoFormats THEN "video"
    ELSE "ValueError"

\* faulty variant: whatever is not audio goes to the video analyzer
DispatchDefaultVideo(f) ==
    IF ~f.exists THEN "FileNotFoundError"
    ELSE IF Lower(f.suffix) \in AudioFormats THEN "audio"
    ELSE "video"

\* the branch DeepfakeAnalyzer.analyze takes for a path: the exception it
\* raises itself, or the modality whose analyzer it calls
Dispatch(f) ==
    IF ~f.exists THEN "FileNotFoundError"
    ELSE IF Lower(f.suffix) \in AudioFormats THEN "audio"
    ELSE IF Lower(f.suffix) \in VideoFormats THEN "video"
    ELSE "ValueError"

\* DeepfakeAnalyzer.analyze, up to the call of the modality's analyze()
Analyze(f) ==
    /\ pc = "idle"
    /\ calls < MaxCalls
    /\ calls' = calls + 1
    /\ method' = "analyze"
    /\ file' = f
    /\ IF Dispatch(f) = "audio"
       THEN GetAudioAnalyzer /\ UNCHANGED video_analyzer
       ELSE IF Dispatch(f) = "video"
       THEN GetVideoAnalyzer /\ UNCHANGED audio_analyzer
       ELSE /\ Raise(Dispatch(f))
            /\ UNCHANGED <<audio_analyzer, video_analyzer, handler>>
    /\ UNCHANGED <<libs, locals, fn>>

\* DeepfakeAnalyzer.analyze_audio, up to the call of AudioAnalyzer.analyze
AnalyzeAudio(f) ==
    /\ pc = "idle"
    /\ calls < MaxCalls
    /\ calls' = calls + 1
    /\ method' = "analyze_audio"
    /\ file' = f
    /\ GetAudioAnalyzer
    /\ UNCHANGED <<libs, video_analyzer, locals, fn>>

\* DeepfakeAnalyzer.analyze_video, up to the call of VideoAnalyzer.analyze
AnalyzeVideo(f) ==
    /\ pc = "idle"
    /\ calls < MaxCalls
    /\ calls' = calls + 1
    /\ method' = "analyze_video"
    /\ file' = f
    /\ GetVideoAnalyzer
    /\ UNCHANGED <<libs, audio_analyzer, locals, fn>>

shared == <<libs, audio_analyzer, video_analyzer, method, file, handler,
            calls, fn>>

\* AudioAnalyzer.analyze: the path checks and librosa.load
AudioLoad ==
    /\ pc = "entered"
    /\ handler = "audio"
    /\ IF ~file.exists
       THEN Raise("FileNotFoundError") /\ UNCHANGED <<loads, stages>>
       ELSE IF ~AudioSupports(file.suffix)
       THEN Raise("ValueError") /\ UNCHANGED <<loads, stages>>
       ELSE /\ loads' = loads + 1
            /\ \E decoded \in BOOLEAN :
                 IF decoded
                 THEN /\ pc' = "loaded"
                      /\ stages' = Append(stages, "load")
                      /\ UNCHANGED error
                 ELSE Raise("RuntimeError") /\ UNCHANGED stages
    /\ UNCHANGED <<shared, cap, frames, measured, anomalies,
                   analysis_details, confidence_score, result>>

\* one extractor group has run: its dict is merged and kept in the details
GroupDone(name, found, next) ==
    /\ anomalies' = Update(anomalies, found)
    /\ analysis_details' =
         Update(analysis_details, [k \in {name} |-> found])
    /\ stages' = Append(stages, name)
    /\ pc' = next

AudioSpectral ==
    /\ pc = "loaded"
    /\ handler = "audio"
    /\ \E c \in CentroidStds, r \in RolloffMeans, sr \in SampleRates,
          z \in ZcrStds :
         /\ measured' = [group |-> "spectral", centroid_std |-> c,
                          rolloff_mean |-> r, sr |-> sr, zcr_std |-> z]
         /\ GroupDone("spectral", AnalyzeSpectralFeatures(c, r, sr, z),
                      "spectral")
    /\ UNCHANGED <<shared, loads, cap, frames, confidence_score, result,
                   error>>

AudioTemporal ==
    /\ pc = "spectral"
    /\ handler = "audio"
    /\ \E rms \in RmsInputs, onsets \in OnsetInputs :
         /\ measured' = [group |-> "temporal", rms_mean |-> rms[1],
                          rms_std |-> rms[2], onsets |-> onsets]
         /\ GroupDone("temporal",
                      AnalyzeTemporalFeatures(rms[1], rms[2], onsets),
                      "temporal")
    /\ UNCHANGED <<shared, loads, cap, frames, confidence_score, result,
                   error>>

\* the statistical group: what it raises leaves analyze() uncaught
AudioStatistical ==
    /\ pc = "temporal"
    /\ handler = "audio"
    /\ \E k \in Kurtoses :
         LET out == AnalyzeStatisticalFeatures(k)
         IN  /\ measured' = [group |-> "statistical", kurtosis |-> k]
             /\ IF out.raised # "none"
                THEN /\ Raise(out.raised)
                     /\ UNCHANGED <<anomalies, analysis_details, stages>>
                ELSE /\ GroupDone("statistical", out.anomalies, "extracted")
                     /\ UNCHANGED error
    /\ UNCHANGED <<shared, loads, cap, frames, confidence_score, result>>

\* VideoAnalyzer.analyze: the path checks, cv2.VideoCapture and isOpened
VideoOpen ==
    /\ pc = "entered"
    /\ handler = "video"
    /\ IF ~file.exists
       THEN Raise("FileNotFoundError") /\ UNCHANGED <<loads, cap, stages>>
       ELSE IF ~VideoSupports(file.suffix)
       THEN Raise("ValueError") /\ UNCHANGED <<loads, cap, stages>>
       ELSE /\ loads' = loads + 1
            /\ \E opened \in BOOLEAN :
                 IF opened
                 THEN /\ pc' = "opened"
                      /\ cap' = "open"
                      /\ stages' = Append(stages, "open")
                      /\ UNCHANGED error
                 ELSE Raise("RuntimeError") /\ UNCHANGED <<cap, stages>>
    /\ UNCHANGED <<shared, frames, measured, anomalies, analysis_details,
                   confidence_score, result>>

\* how many leading frames of a container announcing n frames can be read
ReadableInputs(n) == {0, n} \cup (IF n >= 2 THEN {n - 1} ELSE {})

\* _sample_frames: the frames at the sampled indices for which cap.read()
\* returned ret = True, in order (a frame is named by its index)
SampleFrames(frameCount, sampleFrames, readable) ==
    SelectSeq(SampleIndices(frameCount, sampleFrames),
              LAMBDA idx : idx < readable)

\* the video properties are read and the frames sampled
VideoSample ==
    /\ pc = "opened"
    /\ \E n \in 0..MaxFrameCount :
         \E readable \in ReadableInputs(n) :
           frames' = [frame_count |-> n,
                      list |-> SampleFrames(n, video_analyzer.sample_frames,
                                            readable)]
    /\ stages' = Append(stages, "load")
    /\ pc' = "loaded"
    /\ UNCHANGED <<shared, loads, cap, measured, anomalies,
                   analysis_details, confidence_score, result, error>>

VideoQuality ==
    /\ pc = "loaded"
    /\ handler = "video"
    /\ \E m \in MeanInputs(Len(frames.list), SharpnessMeans),
          d \in StdInputs(Len(frames.list), SharpnessStds) :
         /\ measured' = [group |-> "quality", mean |-> m, std |-> d]
         /\ GroupDone("quality", AnalyzeFrameQuality(m, d), "quality")
    /\ UNCHANGED <<shared, loads, cap, frames, confidence_score, result,
                   error>>

\* the frame differences of n sampled frames: every pair still or moving by
\* six levels, or one pair differing slightly and the others still
TemporalInputs(n) ==
    [1..(n - 1) -> FrameDiffs]
      \cup {[i \in 1..(n - 1) |-> IF i = j THEN d ELSE 0] :
               j \in 1..(n - 1), d \in SpikeDiffs}

VideoTemporal ==
    /\ pc = "quality"
    /\ LET n == Len(frames.list)
       IN  \E diffs \in TemporalInputs(n) :
             /\ measured' = [group |-> "temporal", nframes |-> n,
                              frame_diffs |-> diffs]
             /\ GroupDone("temporal", AnalyzeTemporalConsistency(n, diffs),
                          "temporal_v")
    /\ UNCHANGED <<shared, loads, cap, frames, confidence_score, result,
                   error>>

VideoColor ==
    /\ pc = "temporal_v"
    /\ \E d \in MeanInputs(Len(frames.list), ColorStds),
          b \in MeanInputs(Len(frames.list), ColorImbalances) :
         /\ measured' = [group |-> "color", std |-> d, imbalance |-> b]
         /\ GroupDone("color", AnalyzeColorDistribution(d, b), "color")
    /\ UNCHANGED <<shared, loads, cap, frames, confidence_score, result,
                   error>>

VideoEdges ==
    /\ pc = "color"
    /\ \E m \in MeanInputs(Len(frames.list), EdgeMeans),
          d \in StdInputs(Len(frames.list), EdgeStds) :
         /\ measured' = [group |-> "edges", mean |-> m, std |-> d]
         /\ GroupDone("edges", AnalyzeEdges(m, d), "extracted")
    /\ UNCHANGED <<shared, loads, cap, frames, confidence_score, result,
                   error>>

\* confidence_score = self._calculate_confidence(anomalies)
Score ==
    /\ pc = "extracted"
    /\ confidence_score' =
         IF handler = "audio"
         THEN AudioCalculateConfidence(DOMAIN anomalies)
         ELSE VideoCalculateConfidence(DOMAIN anomalies)
    /\ stages' = Append(stages, "score")
    /\ pc' = "scored"
    /\ UNCHANGED <<shared, loads, cap, frames, measured, anomalies,
                   analysis_details, result, error>>

\* faulty variant: cap.release() follows the return statement only, so an
\* exception in the body skips it
ReleaseOnReturnOnly(handle, raised) ==
    IF raised THEN handle ELSE "released"

\* the finally clause of VideoAnalyzer.analyze: cap.release() runs when the
\* try body returns and when it raises
Finally(handle, raised) == "released"

\* a cv2 call on a sampled frame (cvtColor, Laplacian, absdiff, split, Canny)
\* raises inside the try body of VideoAnalyzer.analyze
VideoRaise ==
    /\ handler = "video"
    /\ pc \in {"loaded", "quality", "temporal_v", "color"}
    /\ frames.list # <<>>
    /\ Raise("cv2.error")
    /\ cap' = Finally(cap, TRUE)
    /\ UNCHANGED <<shared, loads, frames, measured, anomalies,
                   analysis_details, confidence_score, result, stages>>

\* return AnalysisResult(...); the video analyzer's finally releases cap
Return ==
    /\ pc = "scored"
    /\ result' = MakeResult(file, handler, confidence_score, anomalies,
                            analysis_details)
    /\ cap' = IF handler = "video" THEN Finally(cap, FALSE) ELSE cap
    /\ stages' = Append(stages, "result")
    /\ pc' = "done"
    /\ UNCHANGED <<shared, loads, frames, measured, anomalies,
                   analysis_details, confidence_score, error>>

\* the caller has the result or the exception; the locals are gone
Finish ==
    /\ pc \in {"done", "failed"}
    /\ pc' = "idle"
    /\ method' = None
    /\ file' = NoFile
    /\ handler' = None
    /\ loads' = 0
    /\ cap' = "none"
    /\ frames' = NoFrames
    /\ measured' = NoMeasured
    /\ anomalies' = EmptyDict
    /\ analysis_details' = EmptyDict
    /\ confidence_score' = 0
    /\ result' = NoResult
    /\ error' = "none"
    /\ stages' = <<>>
    /\ UNCHANGED <<libs, audio_analyzer, video_analyzer, calls, fn>>

Next ==
    \/ \E f \in FileInputs : Analyze(f)
    \/ \E f \in FileInputs : AnalyzeAudio(f)
    \/ \E f \in FileInputs : AnalyzeVideo(f)
    \/ AudioLoad
    \/ AudioSpectral
    \/ AudioTemporal
    \/ AudioStatistical
    \/ VideoOpen
    \/ VideoSample
    \/ VideoQuality
    \/ VideoTemporal
    \/ VideoColor
    \/ VideoEdges
    \/ VideoRaise
    \/ Score
    \/ Return
    \/ Finish

Spec == Init /\ [][Next]_vars

(***************************************************************************)
(* The pure functions on their own: each behaviour of SpecPure applies one *)
(* function to one input drawn from a bounded set.                         *)
(***************************************************************************)
\* anomaly names no weight table knows
UnknownNames == {"custom_anomaly", "other_anomaly"}

ConfidenceInputs ==
    [op : {"confidence"}, modality : {"audio"},
     keys : SUBSET (DOMAIN AudioWeights \cup UnknownNames),
     done : {FALSE}, out : {0}]
    \cup
    [op : {"confidence"}, modality : {"video"},
     keys : SUBSET (DOMAIN VideoWeights \cup UnknownNames),
     done : {FALSE}, out : {0}]

SampleInputs ==
    [op : {"sample"}, frame_count : 0..MaxFrameArg,
     sample_frames : 0..MaxSampleArg, done : {FALSE}, out : {<<>>}]

\* arguments a caller passes to AnalysisResult(...) directly
ScoreInputs == {0, 25, 50, 51, 75, 100}
ConstructInputs ==
    [op : {"construct"}, file_type : {"audio", "video"},
     is_likely_ai_generated : BOOLEAN, confidence_score : ScoreInputs,
     done : {FALSE}, out : {NoResult}]

\* the dicts of three extractor groups, whatever keys they hold; an entry
\* records the group it came from
MergeKeys == {"first_anomaly", "second_anomaly"}
GroupDict(g, keys) == [k \in keys |-> [detected |-> TRUE, group |-> g]]
MergeInputs ==
    { [op |-> "merge",
       groups |-> <<GroupDict(1, k1), GroupDict(2, k2), GroupDict(3, k3)>>,
       done |-> FALSE, out |-> EmptyDict, raised |-> "none"] :
      k1 \in SUBSET MergeKeys, k2 \in SUBSET MergeKeys,
      k3 \in SUBSET MergeKeys }

\* anomalies = {}; anomalies.update(g) for each group in turn
RECURSIVE MergeGroups(_)
MergeGroups(groups) ==
    IF groups = <<>> THEN EmptyDict
    ELSE Update(MergeGroups(SubSeq(groups, 1, Len(groups) - 1)),
                groups[Len(groups)])

\* the fields to_dict copies, in its order
ReportFields ==
    <<"file_path", "file_type", "is_likely_ai_generated", "confidence_score",
      "anomalies_detected", "analysis_details">>

\* faulty variant: analysis_details is left out of the report
ToDictNoDetails(r) ==
    [k \in Range(ReportFields) \ {"analysis_details"} |-> r[k]]

\* AnalysisResult.to_dict: a new dict holding the six fields
ToDict(r) == [k \in Range(ReportFields) |-> r[k]]

\* the keys under which the reports hold a dict: the two dict fields, the
\* group names and the anomaly names (in the test's result the dicts map
\* "test" to a str)
DictKeys ==
    {"anomalies_detected", "analysis_details", "quality", "temporal", "color",
     "edges", "spectral", "statistical"}
    \cup DOMAIN AudioWeights \cup DOMAIN VideoWeights

\* the Python type of the value stored under a key that holds no dict
PyType(key) ==
    IF key \in {"detected", "is_likely_ai_generated"} THEN "bool"
    ELSE IF key \in {"reason", "file_path", "file_type", "test"} THEN "str"
    ELSE IF key = "onset_count" THEN "int"
    ELSE "float"

\* json.dump: a dict becomes an object with the same (str) keys, True and
\* False become true and false, a str a quoted string, an int its digits,
\* a float its repr, the shortest decimal that reads back as that double
RECURSIVE JsonDump(_, _)
JsonDump(key, v) ==
    IF key \in DictKeys
    THEN [json |-> "object",
          members |-> [k \in DOMAIN v |-> JsonDump(k, v[k])]]
    ELSE IF PyType(key) = "bool"
    THEN [json |-> IF v THEN "true" ELSE "false"]
    ELSE IF PyType(key) = "str" THEN [json |-> "string", text |-> v]
    ELSE IF PyType(key) = "int" THEN [json |-> "number", digits |-> v,
                                      point |-> FALSE]
    ELSE [json |-> "number", digits |-> v, point |-> TRUE]

\* json.load: an object becomes a dict, true and false the bools, a string
\* a str, a number without a decimal point an int and one with it a float
RECURSIVE JsonLoad(_)
JsonLoad(j) ==
    IF j.json = "object"
    THEN [k \in DOMAIN j.members |-> JsonLoad(j.members[k])]
    ELSE IF j.json = "true" THEN TRUE
    ELSE IF j.json = "false" THEN FALSE
    ELSE IF j.json = "string" THEN j.text
    ELSE j.digits

\* json.dump(result.to_dict(), f, indent=2): the text written to the file
SaveReport(r) ==
    [json |-> "object",
     members |-> [k \in DOMAIN ToDict(r) |-> JsonDump(k, ToDict(r)[k])]]

\* results passed to save_report: what VideoAnalyzer.analyze returns for a
\* few measurements, and the result the test builds by hand
VideoReportInputs ==
    { [quality |-> q, temporal |-> t, color |-> c, edges |-> e] :
        q \in { AnalyzeFrameQuality(Num(m), Num(0)) : m \in SharpnessMeans },
        t \in { AnalyzeTemporalConsistency(3, <<d, d>>) : d \in FrameDiffs },
        c \in { AnalyzeColorDistribution(Num(d), Num(40)) : d \in ColorStds },
        e \in { AnalyzeEdges(Num(m), Num(1)) : m \in EdgeMeans } }

MergedAnomalies(details) ==
    MergeGroups(<<details.quality, details.temporal, details.color,
                  details.edges>>)

ResultInputs ==
    { MakeResult(<<".", "m", "p", "4">>, "video",
                 VideoCalculateConfidence(DOMAIN MergedAnomalies(d)),
                 MergedAnomalies(d), d) : d \in VideoReportInputs }
    \cup
    { AnalysisResult(<<".", "m", "p", "3">>, "audio", TRUE, 80,
                     [k \in {"test"} |-> "anomaly"],
                     [k \in {"test"} |-> "details"]) }

NoReport == [json |-> None]

SaveInputs ==
    [op : {"save"}, result : ResultInputs, done : {FALSE},
     saved : ResultInputs, report : {NoReport}]

\* the order in which VideoAnalyzer.analyze inserts names into anomalies:
\* the groups in order, each group's tests in order
VideoAnomalyOrder ==
    << "sharpness_anomaly", "low_sharpness_anomaly",
       "temporal_consistency_anomaly", "temporal_jump_anomaly",
       "color_distribution_anomaly", "color_balance_anomaly",
       "edge_consistency_anomaly", "low_edge_density_anomaly" >>

\* anomalies.keys()
InsertionOrder(anoms) ==
    SelectSeq(VideoAnomalyOrder, LAMBDA k : k \in DOMAIN anoms)

\* frames sampled by a VideoAnalyzer constructed with a large sample_frames
ManyFrames == 631

\* frame differences of ManyFrames frames: one cut of 31 levels in a video
\* that otherwise moves by six levels from frame to frame
CutDiffs == [i \in 1..(ManyFrames - 1) |-> IF i = 1 THEN 310 ELSE 60]

\* what the four groups measure on the sampled frames of one video
VideoMeasureInputs ==
    [ op : {"video"},
      mean_sharpness : SharpnessMeans, std_sharpness : SharpnessStds,
      frame_diffs : {<<0, 0>>, <<60, 60>>, <<0, 60>>, CutDiffs},
      color_std : ColorStds, color_imbalance : ColorImbalances,
      edge_mean : EdgeMeans, edge_std : EdgeStds,
      done : {FALSE}, out : {NoResult}, total : {FloatZero},
      score : {FloatZero} ]

InitPure ==
    /\ libs = [audio |-> TRUE, video |-> TRUE]
    /\ audio_analyzer = NoAnalyzer
    /\ video_analyzer = NoAnalyzer
    /\ pc = "idle"
    /\ method = None
    /\ file = NoFile
    /\ handler = None
    /\ calls = 0
    /\ FreshCall
    /\ \/ fn \in ConfidenceInputs
       \/ fn \in SampleInputs
       \/ fn \in MergeInputs
       \/ fn \in ConstructInputs
       \/ fn \in {x \in SaveInputs : x.saved = x.result}
       \/ fn \in VideoMeasureInputs

session == <<libs, audio_analyzer, video_analyzer, pc, method, file, handler, loads,
             cap, frames, measured, anomalies, analysis_details,
             confidence_score, result, error, stages, calls>>

ApplyConfidence ==
    /\ fn.op = "confidence"
    /\ ~fn.done
    /\ fn' = [fn EXCEPT !.done = TRUE,
                        !.out = IF fn.modality = "audio"
                                THEN AudioCalculateConfidence(fn.keys)
                                ELSE VideoCalculateConfidence(fn.keys)]
    /\ UNCHANGED session

ApplySample ==
    /\ fn.op = "sample"
    /\ ~fn.done
    /\ fn' = [fn EXCEPT !.done = TRUE,
                        !.out = SampleIndices(fn.frame_count,
                                              fn.sample_frames)]
    /\ UNCHANGED session

ApplyMerge ==
    /\ fn.op = "merge"
    /\ ~fn.done
    /\ fn' = [fn EXCEPT !.done = TRUE, !.out = MergeGroups(fn.groups)]
    /\ UNCHANGED session

ApplyConstruct ==
    /\ fn.op = "construct"
    /\ ~fn.done
    /\ fn' = [fn EXCEPT !.done = TRUE,
                        !.out = AnalysisResult(NoFile, fn.file_type,
                                               fn.is_likely_ai_generated,
                                               fn.confidence_score,
                                               EmptyDict, EmptyDict)]
    /\ UNCHANGED session

\* DeepfakeAnalyzer.save_report: result is the caller's object, saved the
\* object as it was when it was passed
ApplySave ==
    /\ fn.op = "save"
    /\ ~fn.done
    /\ fn' = [fn EXCEPT !.done = TRUE, !.report = SaveReport(fn.result)]
    /\ UNCHANGED session

\* VideoAnalyzer.analyze from the sampled frames on: the four groups, the
\* merge, the confidence and the result.  out carries the score in
\* hundredths, total and score the doubles total_weight and confidence
ApplyVideo ==
    /\ fn.op = "video"
    /\ ~fn.done
    /\ LET details ==
             [quality  |-> AnalyzeFrameQuality(Num(fn.mean_sharpness),
                                               Num(fn.std_sharpness)),
              temporal |-> AnalyzeTemporalConsistency(Len(fn.frame_diffs) + 1,
                                                      fn.frame_diffs),
              color    |-> AnalyzeColorDistribution(Num(fn.color_std),
                                                    Num(fn.color_imbalance)),
              edges    |-> AnalyzeEdges(Num(fn.edge_mean), Num(fn.edge_std))]
           anoms == MergedAnomalies(details)
       IN  fn' = [fn EXCEPT
                    !.done = TRUE,
                    !.out = MakeResult([exists |-> TRUE,
                                        suffix |-> <<".", "m", "p", "4">>],
                                       "video",
                                       VideoCalculateConfidence(DOMAIN anoms),
                                       anoms, details),
                    !.total = TotalWeightDouble(VideoWeights,
                                                InsertionOrder(anoms)),
                    !.score = CalculateConfidenceDouble(VideoWeights,
                                                        InsertionOrder(anoms))]
    /\ UNCHANGED session

NextPure ==
    \/ ApplyVideo
    \/ ApplyConfidence
    \/ ApplySample
    \/ ApplyMerge
    \/ ApplyConstruct
    \/ ApplySave

SpecPure == InitPure /\ [][NextPure]_vars

(***************************************************************************)
(* analyze_batch.  fn is the frame of the call: its arguments, the loop    *)
(* position i, results and errors, and what it has printed on stdout (the  *)
(* "Analyzing:" lines) and stderr (the "Error analyzing" lines).  A call   *)
(* of analyzer.analyze inside the loop is taken with its outcome: what it  *)
(* raises or the result it returns.                                        *)
(***************************************************************************)
MaxBatch == 2

\* the paths given to a batch: a missing file, an unsupported one, an audio
\* file and a video file
BatchFiles ==
    { [exists |-> FALSE, suffix |-> <<".", "m", "p", "3">>],
      [exists |-> TRUE, suffix |-> <<".", "t", "x", "t">>],
      [exists |-> TRUE, suffix |-> <<".", "w", "a", "v">>],
      [exists |-> TRUE, suffix |-> <<".", "m", "p", "4">>] }

\* what VideoAnalyzer.analyze returns for f: here one result that is not
\* flagged and one that is
BatchResults(f) ==
    LET calm == [quality |-> EmptyDict, temporal |-> EmptyDict,
                 color |-> AnalyzeColorDistribution(Num(10), Num(30)),
                 edges |-> EmptyDict]
        loud == [quality |-> AnalyzeFrameQuality(Num(80), Num(0)),
                 temporal |-> AnalyzeTemporalConsistency(3, <<60, 60>>),
                 color |-> AnalyzeColorDistribution(Num(10), Num(40)),
                 edges |-> AnalyzeEdges(Num(10), Num(0))]
    IN  { MakeResult(f, "video",
                     VideoCalculateConfidence(DOMAIN MergedAnomalies(d)),
                     MergedAnomalies(d), d) : d \in {calm, loud} }

\* the ways analyzer.analyze(f) ends: raised is the exception, "none" when
\* it returns result
AnalyzeOutcomes(f) ==
    IF Dispatch(f) \in {"FileNotFoundError", "ValueError"}
    THEN {[raised |-> Dispatch(f), result |-> NoResult]}
    ELSE IF Dispatch(f) = "audio"
    THEN IF audio_analyzer = NoAnalyzer /\ ~libs.audio
         THEN {[raised |-> "ImportError", result |-> NoResult]}
         ELSE {[raised |-> e, result |-> NoResult] :
                 e \in {"RuntimeError", AnalyzeStatisticalFeatures(0).raised}}
    ELSE IF video_analyzer = NoAnalyzer /\ ~libs.video
         THEN {[raised |-> "ImportError", result |-> NoResult]}
         ELSE {[raised |-> e, result |-> NoResult] :
                 e \in {"RuntimeError", "cv2.error"}}
              \cup {[raised |-> "none", result |-> r] : r \in BatchResults(f)}

\* the analyzer fields after analyzer.analyze(f)
AudioAnalyzerAfter(f) ==
    IF Dispatch(f) = "audio" /\ libs.audio THEN NewAudioAnalyzer
    ELSE audio_analyzer
VideoAnalyzerAfter(f) ==
    IF Dispatch(f) = "video" /\ libs.video THEN NewVideoAnalyzer
    ELSE video_analyzer

RECURSIVE SeqsUpTo(_, _)
SeqsUpTo(S, n) ==
    IF n = 0 THEN {<<>>}
    ELSE SeqsUpTo(S, n - 1)
         \cup {Append(q, x) : q \in {t \in SeqsUpTo(S, n - 1) : Len(t) = n - 1},
                              x \in S}

BatchInputs ==
    [op : {"batch"}, file_paths : SeqsUpTo(BatchFiles, MaxBatch),
     output_dir : {None, "reports"}, i : {0}, results : {<<>>},
     errors : {0}, stdout : {<<>>}, stderr : {<<>>}, reports : {<<>>},
     stage : {"loop"}, exit_code : {None}]

InitBatch ==
    /\ libs \in [audio : BOOLEAN, video : BOOLEAN]
    /\ audio_analyzer = NoAnalyzer
    /\ video_analyzer = NoAnalyzer
    /\ pc = "idle"
    /\ method = None
    /\ file = NoFile
    /\ handler = None
    /\ calls = 0
    /\ FreshCall
    /\ fn \in BatchInputs

\* faulty variant: the loop is left at the first error
RecordErrorAndStop(b, f) ==
    [b EXCEPT !.errors = @ + 1, !.stderr = Append(@, f),
              !.i = Len(b.file_paths)]

\* the except clause: the message on stderr, errors += 1
RecordError(b, f) ==
    [b EXCEPT !.errors = @ + 1, !.stderr = Append(@, f)]

\* return 0 if errors == 0 else 1
ExitCode(errors) == IF errors = 0 THEN 0 ELSE 1

\* one pass of the for loop: print "Analyzing", analyze, append the result,
\* print it and save its report; any exception of these ends the pass in
\* the except clause
BatchIteration ==
    /\ fn.op = "batch"
    /\ fn.stage = "loop"
    /\ fn.i < Len(fn.file_paths)
    /\ LET f == fn.file_paths[fn.i + 1]
           started == [fn EXCEPT !.i = @ + 1, !.stdout = Append(@, f)]
       IN  /\ \E out \in AnalyzeOutcomes(f) :
                IF out.raised # "none"
                THEN fn' = RecordError(started, f)
                ELSE LET appended ==
                           [started EXCEPT !.results = Append(@, out.result)]
                     IN  \E printed \in BOOLEAN, saved \in BOOLEAN :
                           IF ~printed THEN fn' = RecordError(appended, f)
                           ELSE IF fn.output_dir = None THEN fn' = appended
                           ELSE IF ~saved THEN fn' = RecordError(appended, f)
                           ELSE fn' = [appended EXCEPT
                                         !.reports =
                                            Append(@, SaveReport(out.result))]
           /\ audio_analyzer' = AudioAnalyzerAfter(f)
           /\ video_analyzer' = VideoAnalyzerAfter(f)
    /\ UNCHANGED <<libs, pc, method, file, handler, loads, cap, frames,
                   measured, anomalies, analysis_details, confidence_score,
                   result, error, stages, calls>>

\* after the loop: the summary is printed and the exit code returned
BatchSummary ==
    /\ fn.op = "batch"
    /\ fn.stage = "loop"
    /\ fn.i = Len(fn.file_paths)
    /\ fn' = [fn EXCEPT !.stage = "returned",
                        !.exit_code = ExitCode(fn.errors)]
    /\ UNCHANGED session

NextBatch == BatchIteration \/ BatchSummary

SpecBatch == InitBatch /\ [][NextBatch]_vars

(***************************************************************************)
(* Two calls of analyze() running concurrently on one DeepfakeAnalyzer.    *)
(* audio_analyzer and video_analyzer are the fields the threads share; fn  *)
(* holds each thread's frame (its position, its argument, the analyzer it  *)
(* was handed, its sampled frames, its outcome), the number of analyzers   *)
(* constructed so far, and the places where anomalies are accumulated.     *)
(***************************************************************************)
Threads == {"t1", "t2"}

\* what a call is given: the path, and what the file at that path holds
ThreadCall(f, decodable, opened, levels, sharpness) ==
    [file |-> f, decodable |-> decodable, opened |-> opened,
     levels |-> levels, sharpness |-> sharpness]

\* a missing file, an audio file, a video that cannot be opened, a video of
\* three sharp frames changing steadily and a video of three soft frames
\* with one cut; levels is the gray level of each frame
ThreadCalls ==
    { ThreadCall([exists |-> FALSE, suffix |-> <<".", "m", "p", "3">>],
                 FALSE, FALSE, <<>>, 0),
      ThreadCall([exists |-> TRUE, suffix |-> <<".", "w", "a", "v">>],
                 TRUE, FALSE, <<>>, 0),
      ThreadCall([exists |-> TRUE, suffix |-> <<".", "a", "v", "i">>],
                 FALSE, FALSE, <<>>, 0),
      ThreadCall([exists |-> TRUE, suffix |-> <<".", "m", "p", "4">>],
                 FALSE, TRUE, <<10, 16, 22>>, 80),
      ThreadCall([exists |-> TRUE, suffix |-> <<".", "m", "o", "v">>],
                 FALSE, TRUE, <<10, 10, 41>>, 20) }

\* the summed absolute difference of each consecutive pair of the sampled
\* frames (frames holds 0-based indices into levels)
FrameDiffsOf(levels, sampled) ==
    [i \in 1..(Len(sampled) - 1) |->
        LET a == levels[sampled[i] + 1]
            b == levels[sampled[i + 1] + 1]
        IN  (IF a >= b THEN a - b ELSE b - a) * FramePixels]

\* the anomalies dict of one video group on the sampled frames of a call
VideoGroupOf(group, call, sampled) ==
    IF group = "quality"
    THEN AnalyzeFrameQuality(Num(call.sharpness), Num(0))
    ELSE IF group = "temporal"
    THEN AnalyzeTemporalConsistency(Len(sampled),
                                    FrameDiffsOf(call.levels, sampled))
    ELSE IF group = "color"
    THEN AnalyzeColorDistribution(Num(10), Num(30))
    ELSE AnalyzeEdges(Num(20), Num(0))

Raised(exc) == [raised |-> exc, result |-> NoResult]
Returned(r) == [raised |-> "none", result |-> r]
NoOutcome == [raised |-> None, result |-> NoResult]

\* what analyze(call) raises or returns when it runs alone on a new
\* DeepfakeAnalyzer
Alone(call) ==
    LET d == Dispatch(call.file)
    IN  IF d \in {"FileNotFoundError", "ValueError"} THEN Raised(d)
        ELSE IF ~libs[d] THEN Raised("ImportError")
        ELSE IF d = "audio"
        THEN IF call.decodable
             THEN Raised(AnalyzeStatisticalFeatures(0).raised)
             ELSE Raised("RuntimeError")
        ELSE IF ~call.opened THEN Raised("RuntimeError")
        ELSE LET sampled == SampleFrames(Len(call.levels),
                                         NewVideoAnalyzer.sample_frames,
                                         Len(call.levels))
                 details == [g \in {"quality", "temporal", "color", "edges"}
                               |-> VideoGroupOf(g, call, sampled)]
                 anoms   == MergedAnomalies(details)
             IN  Returned(MakeResult(call.file, "video",
                                     VideoCalculateConfidence(DOMAIN anoms),
                                     anoms, details))

\* the n-th analyzer constructed for a field
Instance(first, n) == [first EXCEPT !.serial = n]

\* faulty variant: anomalies and analysis_details are attributes of the
\* analyzer the call runs on
OnSelf(t, ref) == ref.kind

\* where a call accumulates anomalies and analysis_details: in local
\* variables of the call
Locals(t, ref) == t

Places == Threads \cup {"AudioAnalyzer", "VideoAnalyzer"}
NoDicts == [anomalies |-> EmptyDict, analysis_details |-> EmptyDict]

ThreadInputs ==
    [ op : {"threads"},
      frame : [Threads -> [pc : {"start"}, call : ThreadCalls,
                           ref : {NoAnalyzer}, sampled : {<<>>},
                           out : {NoOutcome}]],
      built : {[audio |-> 0, video |-> 0]},
      store : {[p \in Places |-> NoDicts]} ]

InitThreads ==
    /\ libs \in [audio : BOOLEAN, video : BOOLEAN]
    /\ audio_analyzer = NoAnalyzer
    /\ video_analyzer = NoAnalyzer
    /\ pc = "idle"
    /\ method = None
    /\ file = NoFile
    /\ handler = None
    /\ calls = 0
    /\ FreshCall
    /\ fn \in ThreadInputs

unshared == <<libs, pc, method, file, handler, loads, cap, frames, measured,
              anomalies, analysis_details, confidence_score, result, error,
              stages, calls>>

\* the thread's call ends with the outcome out
ThreadEnds(t, out) ==
    fn' = [fn EXCEPT !.frame[t].pc = "returned", !.frame[t].out = out]

ThreadGoes(t, next) == fn' = [fn EXCEPT !.frame[t].pc = next]

Modality(t) == Dispatch(fn.frame[t].call.file)
Field(t) == IF Modality(t) = "audio" THEN audio_analyzer ELSE video_analyzer

\* DeepfakeAnalyzer.analyze: the existence check and the dispatch
ThreadDispatch(t) ==
    /\ fn.frame[t].pc = "start"
    /\ IF Modality(t) \in {"FileNotFoundError", "ValueError"}
       THEN ThreadEnds(t, Raised(Modality(t)))
       ELSE ThreadGoes(t, "test")
    /\ UNCHANGED <<audio_analyzer, video_analyzer, unshared>>

\* _get_*_analyzer: "if self.<field> is None"
ThreadTest(t) ==
    /\ fn.frame[t].pc = "test"
    /\ ThreadGoes(t, IF Field(t) = NoAnalyzer THEN "construct" ELSE "fetch")
    /\ UNCHANGED <<audio_analyzer, video_analyzer, unshared>>

\* "self.<field> = <Modality>Analyzer(verbose=...)": the constructor raises
\* ImportError without its libraries, else the field is assigned
ThreadConstruct(t) ==
    /\ fn.frame[t].pc = "construct"
    /\ LET m == Modality(t)
       IN  IF ~libs[m]
           THEN /\ ThreadEnds(t, Raised("ImportError"))
                /\ UNCHANGED <<audio_analyzer, video_analyzer>>
           ELSE /\ fn' = [fn EXCEPT !.frame[t].pc = "fetch",
                                    !.built[m] = @ + 1]
                /\ IF m = "audio"
                   THEN /\ audio_analyzer' =
                             Instance(NewAudioAnalyzer, fn.built[m] + 1)
                        /\ UNCHANGED video_analyzer
                   ELSE /\ video_analyzer' =
                             Instance(NewVideoAnalyzer, fn.built[m] + 1)
                        /\ UNCHANGED audio_analyzer
    /\ UNCHANGED unshared

\* "return self.<field>": the thread is handed whatever the field holds now
ThreadFetch(t) ==
    /\ fn.frame[t].pc = "fetch"
    /\ fn' = [fn EXCEPT !.frame[t].pc = "load", !.frame[t].ref = Field(t)]
    /\ UNCHANGED <<audio_analyzer, video_analyzer, unshared>>

\* the modality analyzer's analyze: librosa.load, or cv2.VideoCapture and
\* isOpened; a decoded audio signal goes through the groups up to the
\* statistical one, which raises
ThreadLoad(t) ==
    /\ fn.frame[t].pc = "load"
    /\ LET call == fn.frame[t].call
       IN  IF Modality(t) = "audio"
           THEN IF call.decodable
                THEN ThreadEnds(t, Raised(AnalyzeStatisticalFeatures(0).raised))
                ELSE ThreadEnds(t, Raised("RuntimeError"))
           ELSE IF call.opened
                THEN ThreadGoes(t, "sample")
                ELSE ThreadEnds(t, Raised("RuntimeError"))
    /\ UNCHANGED <<audio_analyzer, video_analyzer, unshared>>

\* frames = self._sample_frames(...); anomalies = {}; analysis_details = {}
ThreadSample(t) ==
    /\ fn.frame[t].pc = "sample"
    /\ LET me == fn.frame[t]
       IN  fn' = [fn EXCEPT
                    !.frame[t].pc = "quality",
                    !.frame[t].sampled =
                       SampleFrames(Len(me.call.levels), me.ref.sample_frames,
                                    Len(me.call.levels)),
                    !.store[Locals(t, me.ref)] = NoDicts]
    /\ UNCHANGED <<audio_analyzer, video_analyzer, unshared>>

GroupAfter(group) ==
    IF group = "quality" THEN "temporal"
    ELSE IF group = "temporal" THEN "color"
    ELSE IF group = "color" THEN "edges"
    ELSE "score"

\* one extractor group: anomalies.update(found);
\* analysis_details[group] = found
ThreadGroup(t) ==
    /\ fn.frame[t].pc \in {"quality", "temporal", "color", "edges"}
    /\ LET me    == fn.frame[t]
           place == Locals(t, me.ref)
           found == VideoGroupOf(me.pc, me.call, me.sampled)
       IN  fn' = [fn EXCEPT
                    !.frame[t].pc = GroupAfter(me.pc),
                    !.store[place].anomalies = Update(@, found),
                    !.store[place].analysis_details =
                       Update(@, [k \in {me.pc} |-> found])]
    /\ UNCHANGED <<audio_analyzer, video_analyzer, unshared>>

\* the confidence and return AnalysisResult(...)
ThreadReturn(t) ==
    /\ fn.frame[t].pc = "score"
    /\ LET me   == fn.frame[t]
           kept == fn.store[Locals(t, me.ref)]
       IN  ThreadEnds(t, Returned(
               MakeResult(me.call.file, "video",
                          VideoCalculateConfidence(DOMAIN kept.anomalies),
                          kept.anomalies, kept.analysis_details)))
    /\ UNCHANGED <<audio_analyzer, video_analyzer, unshared>>

\* the next step of thread t
ThreadStep(t) ==
    \/ ThreadDispatch(t)
    \/ ThreadTest(t)
    \/ ThreadConstruct(t)
    \/ ThreadFetch(t)
    \/ ThreadLoad(t)
    \/ ThreadSample(t)
    \/ ThreadGroup(t)
    \/ ThreadReturn(t)

NextThreads == \E t \in Threads : ThreadStep(t)

SpecThreads == InitThreads /\ [][NextThreads]_vars

(***************************************************************************)
(* Properties.                                                             *)
(***************************************************************************)
\* the weight the tables give a name, 0.1 (10) for a name they do not hold
TableWeight(modality, name) ==
    LET table == IF modality = "audio" THEN AudioWeights ELSE VideoWeights
    IN  IF name \in DOMAIN table THEN table[name] ELSE 10

\* the sum of the weights of a set of names, counted weight by weight; the
\* weights are the multiples of 0.05 up to 1.0
RECURSIVE WeightedCount(_, _, _)
WeightedCount(modality, names, n) ==
    IF n = 0 THEN 0
    ELSE 5 * n * Cardinality({k \in names : TableWeight(modality, k) = 5 * n})
         + WeightedCount(modality, names, n - 1)

SumOfWeights(modality, names) == WeightedCount(modality, names, 20)

C2_ResultFlagAndScore ==
    result # NoResult =>
        /\ result.is_likely_ai_generated = (result.confidence_score > 50)
        /\ result.confidence_score =
             Min(100, SumOfWeights(result.file_type,
                                   DOMAIN result.anomalies_detected))

\* a result whose score is exactly 0.5 was returned, and it is not flagged
C2_Witness ==
    /\ pc = "done"
    /\ result # NoResult
    /\ result.confidence_score = 50
    /\ DOMAIN result.anomalies_detected # {}
    /\ ~result.is_likely_ai_generated

\* the extensions the two modalities accept
AudioExtensions ==
    { <<".", "m", "p", "3">>, <<".", "w", "a", "v">>, <<".", "m", "4", "a">>,
      <<".", "f", "l", "a", "c">>, <<".", "o", "g", "g">>,
      <<".", "a", "a", "c">>, <<".", "w", "m", "a">> }
VideoExtensions ==
    { <<".", "m", "p", "4">>, <<".", "a", "v", "i">>, <<".", "m", "o", "v">>,
      <<".", "m", "k", "v">>, <<".", "f", "l", "v">>, <<".", "w", "m", "v">>,
      <<".", "w", "e", "b", "m">> }

\* a letter and its capital
CasePairs ==
    { <<"a", "A">>, <<"b", "B">>, <<"c", "C">>, <<"e", "E">>, <<"f", "F">>,
      <<"g", "G">>, <<"i", "I">>, <<"k", "K">>, <<"l", "L">>, <<"m", "M">>,
      <<"o", "O">>, <<"p", "P">>, <<"v", "V">>, <<"w", "W">>, <<"x", "X">>,
      <<"y", "Y">>, <<"z", "Z">> }

\* suffix is the extension ext written in some letter case
SpelledAs(suffix, ext) ==
    /\ Len(suffix) = Len(ext)
    /\ \A i \in 1..Len(ext) :
         suffix[i] = ext[i] \/ <<ext[i], suffix[i]>> \in CasePairs

IsAudioPath(f) == \E ext \in AudioExtensions : SpelledAs(f.suffix, ext)
IsVideoPath(f) == \E ext \in VideoExtensions : SpelledAs(f.suffix, ext)

\* C3: for an existing file, analyze picks the pipeline by the lower-cased
\* extension: an audio extension, in any letter case, is handled by the
\* audio analyzer alone and gives file_type "audio", a video extension by
\* the video analyzer alone and gives file_type "video"; the two sets are
\* disjoint.
C3_DispatchByExtension ==
    /\ AudioExtensions \cap VideoExtensions = {}
    /\ (method = "analyze" /\ file.exists /\ IsAudioPath(file)) =>
          /\ handler = "audio" \/ error = "ImportError"
          /\ error # "ValueError"
          /\ cap = "none"
          /\ result # NoResult => result.file_type = "audio"
    /\ (method = "analyze" /\ file.exists /\ IsVideoPath(file)) =>
          /\ handler = "video" \/ error = "ImportError"
          /\ error # "ValueError"
          /\ cap # "none" => handler = "video"
          /\ result # NoResult => result.file_type = "video"

\* an existing file with a capitalised audio extension was loaded by the
\* audio analyzer
C3_Witness ==
    /\ method = "analyze"
    /\ file.exists
    /\ file.suffix = <<".", "M", "P", "3">>
    /\ handler = "audio"
    /\ pc = "loaded"
    /\ loads = 1

\* C4: analyze on a path that does not exist raises the file-not-found error
\* before a modality is selected, whatever the extension: no modality
\* analyzer is constructed and no load is attempted.
C4_MissingFileRaisesFirst ==
    [][(pc = "idle" /\ method' = "analyze" /\ ~file'.exists) =>
          /\ pc' = "failed"
          /\ error' = "FileNotFoundError"
          /\ handler' = None
          /\ audio_analyzer' = audio_analyzer
          /\ video_analyzer' = video_analyzer
          /\ loads' = 0
          /\ cap' = "none"]_vars

\* analyze failed on a missing path with a supported extension, and nothing
\* was constructed
C4_Witness ==
    /\ method = "analyze"
    /\ ~file.exists
    /\ IsVideoPath(file)
    /\ pc = "failed"
    /\ error = "FileNotFoundError"
    /\ video_analyzer = NoAnalyzer
    /\ audio_analyzer = NoAnalyzer

\* C5: analyze on an existing file whose lower-cased extension is in neither
\* set raises the unsupported-format error (ValueError) before any decoding:
\* audio_analyzer and video_analyzer keep their previous values and no loader
\* call is made.
C5_UnsupportedRaisesBeforeLoad ==
    [][(pc = "idle" /\ method' = "analyze" /\ file'.exists
        /\ ~IsAudioPath(file') /\ ~IsVideoPath(file')) =>
          /\ pc' = "failed"
          /\ error' = "ValueError"
          /\ handler' = None
          /\ audio_analyzer' = audio_analyzer
          /\ video_analyzer' = video_analyzer
          /\ loads' = 0
          /\ cap' = "none"]_vars

\* analyze rejected an existing .xyz file on an analyzer that had already
\* constructed its audio analyzer, which it kept
C5_Witness ==
    /\ method = "analyze"
    /\ file.exists
    /\ file.suffix = <<".", "x", "y", "z">>
    /\ pc = "failed"
    /\ error = "ValueError"
    /\ audio_analyzer = NewAudioAnalyzer
    /\ video_analyzer = NoAnalyzer
    /\ loads = 0

\* the stages of one analysis, in order
AudioStages ==
    <<"load", "spectral", "temporal", "statistical", "score", "result">>
VideoStages ==
    <<"open", "load", "quality", "temporal", "color", "edges", "score",
      "result">>
StagesOf(h) == IF h = "audio" THEN AudioStages ELSE VideoStages

IsPrefix(s, t) == Len(s) <= Len(t) /\ s = SubSeq(t, 1, Len(s))

\* C6: the stages of a call run in the order load, every extractor group,
\* confidence, result, none repeated; an analysis of an existing, supported
\* file whose load succeeds runs every group of its modality and ends in Done
\* with one Analysis Result, failures occurring only at load or earlier
\* (a failure inside the cv2 library on a loaded frame set aside).
C6_StagesRunToDone ==
    /\ handler # None => IsPrefix(stages, StagesOf(handler))
    /\ (handler # None /\ "load" \in Range(stages)
        /\ pc \in {"done", "failed"} /\ error # "cv2.error") =>
          /\ pc = "done"
          /\ error = "none"
          /\ result # NoResult
          /\ stages = StagesOf(handler)

\* C7: whenever the loader cannot produce a usable signal or frame sequence
\* (the audio load raises, the container cannot be opened, the opened video
\* yields no readable frame) analyze fails with a decode-failure error and
\* returns no Analysis Result.
C7_DecodeFailureRaises ==
    /\ (pc = "failed" /\ loads > 0 /\ ~("load" \in Range(stages))) =>
          error = "RuntimeError" /\ result = NoResult
    /\ (handler = "video" /\ "load" \in Range(stages)
        /\ frames.list = <<>>) =>
          pc # "done" /\ result = NoResult

\* the sequence s is strictly increasing
StrictlyIncreasing(s) == \A i \in 1..(Len(s) - 1) : s[i] < s[i + 1]

\* a sampling of F frames under the limit N has been computed
Sampled == fn.op = "sample" /\ fn.done

\* C8 as stated: with F <= N the indices are 0..F-1; with F > N exactly N
\* indices are chosen, the first 0, the last F-1, index i being
\* floor(i*(F-1)/(N-1)), strictly increasing.
C8_AsStated ==
    Sampled =>
        LET F == fn.frame_count
            N == fn.sample_frames
        IN  IF F <= N
            THEN fn.out = [i \in 1..F |-> i - 1]
            ELSE /\ Len(fn.out) = N
                 /\ N >= 1 => fn.out[1] = 0 /\ fn.out[N] = F - 1
                 /\ N >= 2 =>
                      \A i \in 0..(N - 1) :
                        fn.out[i + 1] = (i * (F - 1)) \div (N - 1)
                 /\ StrictlyIncreasing(fn.out)

\* C8, amended: with F <= N the indices are 0..F-1; with F > N exactly N
\* strictly increasing indices are chosen; for N = 1 that is the single
\* index 0; for N >= 2 the first is 0, the last is F-1 and index i is
\* floor(i*(F-1)/(N-1)), or one less than that where i*(F-1)/(N-1) is a
\* whole number (the product of i and the rounded step (F-1)/(N-1) can fall
\* just short of it).
C8_SamplingIndices ==
    Sampled =>
        LET F == fn.frame_count
            N == fn.sample_frames
        IN  IF F <= N
            THEN fn.out = [i \in 1..F |-> i - 1]
            ELSE /\ Len(fn.out) = N
                 /\ StrictlyIncreasing(fn.out)
                 /\ N = 1 => fn.out = <<0>>
                 /\ N >= 2 =>
                      /\ fn.out[1] = 0
                      /\ fn.out[N] = F - 1
                      /\ \A i \in 0..(N - 1) :
                           LET q == (i * (F - 1)) \div (N - 1)
                           IN  \/ fn.out[i + 1] = q
                               \/ /\ fn.out[i + 1] = q - 1
                                  /\ (i * (F - 1)) % (N - 1) = 0

\* 31 frames sampled under a limit of 23: all 23 indices lie between 0 and
\* 30, and the one at position 11 is 14 where 11 * 30 / 22 is exactly 15
C8_Witness ==
    /\ Sampled
    /\ fn.frame_count = 31
    /\ fn.sample_frames = 23
    /\ Len(fn.out) = 23
    /\ fn.out[1] = 0
    /\ fn.out[12] = 14
    /\ fn.out[23] = 30

\* a merge of three group dicts has been computed
Merged == fn.op = "merge" /\ fn.done

\* the keys held by more than one of the merged groups
SharedKeys ==
    UNION { DOMAIN fn.groups[i] \cap DOMAIN fn.groups[j] :
              <<i, j>> \in { p \in (1..3) \X (1..3) : p[1] < p[2] } }

Triggered ==
    LET m == measured
    IN  IF m.group = "quality"
        THEN {n \in {"sharpness_anomaly"} :
                 ~m.std.nan /\ ~m.mean.nan /\ m.std.v < 10 /\ m.mean.v > 50}
             \cup {n \in {"low_sharpness_anomaly"} :
                      ~m.mean.nan /\ m.mean.v < 30}
        ELSE IF m.group = "temporal" /\ handler = "video"
        THEN IF m.nframes < 2 THEN {}
             ELSE {n \in {"temporal_consistency_anomaly"} :
                      /\ StdLt(m.frame_diffs, FramePixels)
                      /\ SeqSum(m.frame_diffs)
                           > 5 * FramePixels * Len(m.frame_diffs)}
                  \cup {n \in {"temporal_jump_anomaly"} :
                           \E i \in 1..Len(m.frame_diffs) :
                             m.frame_diffs[i] * Len(m.frame_diffs)
                               > 5 * SeqSum(m.frame_diffs)}
        ELSE IF m.group = "color"
        THEN {n \in {"color_distribution_anomaly"} :
                 ~m.std.nan /\ m.std.v < 20}
             \cup {n \in {"color_balance_anomaly"} :
                      ~m.imbalance.nan /\ m.imbalance.v > 30}
        ELSE IF m.group = "edges"
        THEN {n \in {"edge_consistency_anomaly"} :
                 ~m.std.nan /\ m.std.v < 1}
             \cup {n \in {"low_edge_density_anomaly"} :
                      ~m.mean.nan /\ m.mean.v < 20}
        ELSE IF m.group = "spectral"
        THEN {n \in {"spectral_centroid_anomaly"} :
                 m.centroid_std < 500 \/ m.centroid_std > 5000}
             \cup {n \in {"spectral_rolloff_anomaly"} :
                      10 * m.rolloff_mean > 9 * m.sr}
             \cup {n \in {"zero_crossing_anomaly"} : m.zcr_std < 10}
        ELSE IF m.group = "temporal"
        THEN {n \in {"energy_anomaly"} : 10 * m.rms_std < m.rms_mean + 1}
             \cup {n \in {"onset_pattern_anomaly"} :
                      /\ Len(m.onsets) >= 2
                      /\ Len(m.onsets) - 1 >= 3
                      /\ StdLt(Diff(m.onsets), 2)}
        ELSE IF m.group = "statistical"
        THEN {n \in {"kurtosis_anomaly"} :
                 m.kurtosis > -10 /\ m.kurtosis < 10}
        ELSE {}

\* C10: once a group has measured its statistics, its anomaly set holds an
\* entry under a name if and only if the trigger of that name holds on the
\* statistics, and every entry it holds has detected = true.
C10_EntriesMatchTriggers ==
    measured.group # None =>
        /\ measured.group \in DOMAIN analysis_details
        /\ DOMAIN analysis_details[measured.group] = Triggered
        /\ Triggered \subseteq DOMAIN anomalies
        /\ \A k \in DOMAIN anomalies : anomalies[k].detected = TRUE

\* C11: every constructed Analysis Result, one built directly through the
\* AnalysisResult constructor included, has is_likely_ai_generated true
\* exactly when its confidence_score exceeds 0.5.
C11_ConstructedFlagMatchesScore ==
    (fn.op = "construct" /\ fn.done) =>
        fn.out.is_likely_ai_generated = (fn.out.confidence_score > 50)

C13_NoImportErrorAtUse ==
    (calls >= 1 /\ method \in {"analyze", "analyze_audio", "analyze_video"})
        => error # "ImportError"

\* analyze_batch has returned
BatchReturned == fn.op = "batch" /\ fn.stage = "returned"

\* C14: analyze_batch attempts every file of its list exactly once, in list
\* order, whatever happened to the files before it, and returns 0 exactly
\* when no file produced an error, 1 otherwise.
C14_BatchAttemptsAllAndExitCode ==
    /\ fn.op = "batch" => fn.stdout = SubSeq(fn.file_paths, 1, fn.i)
    /\ BatchReturned =>
          /\ fn.stdout = fn.file_paths
          /\ fn.exit_code \in {0, 1}
          /\ fn.exit_code = 0 <=> fn.stderr = <<>>

\* a batch of two files whose first file failed went on to the second, which
\* gave a result, and returned 1
C14_Witness ==
    /\ BatchReturned
    /\ Len(fn.file_paths) = 2
    /\ fn.stderr = <<fn.file_paths[1]>>
    /\ Len(fn.results) = 1
    /\ fn.results[1].file_path = fn.file_paths[2]
    /\ fn.exit_code = 1

\* C20: when analyze_batch finishes, every input file has been counted once,
\* as successful or as failed: the number of results plus the error count
\* is the number of input files, also when printing or saving failed.
C20_BatchCountsEachFileOnce ==
    BatchReturned => Len(fn.results) + fn.errors = Len(fn.file_paths)

\* a step of a call that went to the audio analyzer, or to the video one
AudioStep == handler' = "audio" \/ method' = "analyze_audio"
VideoStep == handler' = "video" \/ method' = "analyze_video"

\* C15: a DeepfakeAnalyzer starts with audio_analyzer and video_analyzer
\* unset; a field that is set is never set again, so each analyzer is
\* constructed at most once, by a call that needs it, and reused afterwards;
\* an audio analysis leaves video_analyzer alone and a video analysis
\* audio_analyzer; a construction that fails leaves the field unset.
C15_LazyConstruction ==
    /\ [](/\ calls = 0 =>
               audio_analyzer = NoAnalyzer /\ video_analyzer = NoAnalyzer
          /\ ~libs.audio => audio_analyzer = NoAnalyzer
          /\ ~libs.video => video_analyzer = NoAnalyzer)
    /\ [][/\ audio_analyzer # NoAnalyzer => audio_analyzer' = audio_analyzer
          /\ video_analyzer # NoAnalyzer => video_analyzer' = video_analyzer
          /\ audio_analyzer' # audio_analyzer =>
                pc = "idle" /\ handler' = "audio"
                /\ audio_analyzer' = NewAudioAnalyzer
          /\ video_analyzer' # video_analyzer =>
                pc = "idle" /\ handler' = "video"
                /\ video_analyzer' = NewVideoAnalyzer
          /\ AudioStep => video_analyzer' = video_analyzer
          /\ VideoStep => audio_analyzer' = audio_analyzer
          /\ (error' = "ImportError" /\ error = "none") =>
                /\ audio_analyzer' = audio_analyzer
                /\ video_analyzer' = video_analyzer
                /\ handler' = None]_vars

\* a second call has entered the video analyzer it constructed, with the
\* audio analyzer of the first call still in its field
C15_Witness ==
    /\ calls = 2
    /\ pc = "entered"
    /\ handler = "video"
    /\ video_analyzer = NewVideoAnalyzer
    /\ audio_analyzer = NewAudioAnalyzer

\* C19: a video analysed from at most six sampled frames (at most five frame
\* differences) never has temporal_jump_anomaly in the temporal group's
\* anomaly set, and with fewer than two sampled frames that set is empty
C19_NoJumpUpToSixFrames ==
    (handler = "video" /\ measured.group = "temporal") =>
        /\ measured.nframes <= 6 =>
              "temporal_jump_anomaly" \notin DOMAIN analysis_details.temporal
        /\ measured.nframes < 2 => analysis_details.temporal = EmptyDict

VideoScored == fn.op = "video" /\ fn.done

C16_ConcurrentCallsAsAlone ==
    fn.op = "threads" =>
        \A t \in Threads :
            /\ fn.frame[t].pc = "returned" =>
                  fn.frame[t].out = Alone(fn.frame[t].call)
            /\ fn.frame[t].pc # "returned" =>
                  fn.frame[t].pc \in {"start", "test", "construct", "fetch",
                                      "load", "sample", "quality", "temporal",
                                      "color", "edges", "score"}

\* both calls found the video field unset and constructed an analyzer; the
\* first call ran on the analyzer the second one had assigned, while the
\* second was running on it, and both have returned, with different results
C16_Witness ==
    /\ fn.op = "threads"
    /\ \A t \in Threads : fn.frame[t].pc = "returned"
    /\ \A t \in Threads : fn.frame[t].out.raised = "none"
    /\ fn.built.video = 2
    /\ fn.frame["t1"].ref = fn.frame["t2"].ref
    /\ fn.frame["t1"].ref.serial = 2
    /\ fn.frame["t1"].out.result.is_likely_ai_generated
    /\ ~fn.frame["t2"].out.result.is_likely_ai_generated

====
